---- MODULE Spec2Model ----
(***************************************************************************)
(* A model of the BMI160 + BMM150 driver (IMU_BMI160_BMM150.cpp).          *)
(*                                                                         *)
(* The driver's process-wide statics are the variables.  IMU_begin() is    *)
(* followed step by step (one step per candidate address of each search    *)
(* tier); every later public operation is one action.  The two-wire bus is *)
(* the environment: the outcome of every transaction is chosen freely.     *)
(***************************************************************************)
EXTENDS Integers, Sequences, FiniteSets, TLC

\* ------------------------------------------------------------ register map
BMI160_ADDR_68 == 104
BMI160_ADDR_69 == 105
BMI160_CHIP_ID == 0
BMI160_CMD == 126
BMI160_ACC_CONF == 64
BMI160_ACC_RANGE == 65
BMI160_GYR_CONF == 66
BMI160_GYR_RANGE == 67
BMI160_MAG_IF_0 == 75
BMI160_MAG_IF_1 == 76
BMI160_MAG_IF_2 == 77
BMI160_MAG_IF_3 == 78
BMI160_MAG_IF_4 == 79
BMI160_MAG_CONF == 68
BMI160_DATA_0 == 4
BMI160_STATUS == 27
BMI160_BMM150_IF == 125
BMI160_CMD_SOFTRESET == 182
BMI160_CMD_ACC_NORMAL == 17
BMI160_CMD_GYR_NORMAL == 21
BMI160_CMD_MAG_NORMAL == 25
BMM150_CHIP_ID == 64
BMM150_POWER == 75
BMM150_OPMODE == 76
BMM150_DATA_X == 66
BMM150_FORCED_MODE == 2
MAX_ACC_FREQUENCY == 1600
MAX_GYR_FREQUENCY == 3200
MAX_MAG_FREQUENCY == 100

\* Identity bytes the driver compares against, the first and last address of
\* the magnetometer candidates and of the full-bus sweep, and the poll caps.
BMI160_ID == 209
BMM150_ID == 50
MAG_ADDR_FIRST == 16
MAG_ADDR_LAST == 19
SWEEP_FIRST == 0
SWEEP_LAST == 127
INIT_POLLS == 200
FORCED_POLLS == 50
DEFAULT_FREQUENCY == 10
DRDY_MAG_BIT == 32

\* MagMode (IMU_getMagMode documents the three values)
NONE == "NONE"
PRIMARY == "PRIMARY"
SECONDARY == "SECONDARY"

\* ------------------------------------------------------------------ bounds
\* The millisecond clock stops at MaxTime, and at most MaxSamples samples are
\* accumulated between two flushes.
MaxTime == 10
MaxSamples == 1

\* what the clock advances by between two calls, in milliseconds
TickStep == 10

\* ------------------------------------------------------- integer arithmetic
\* TLC's integers are 32-bit, so no value of 2^31 or more is ever formed:
\* where the program computes on 32 bits and stores into an int16_t, the
\* low 16 bits of its result are computed.
Pow2(n) == 2 ^ n

\* conversion to int16_t
ToS16(x) == LET m == x % Pow2(16) IN IF m >= Pow2(15) THEN m - Pow2(16) ELSE m

RECURSIVE OrU(_, _, _)
\* bitwise OR of two naturals below 2^n
OrU(a, b, n) ==
    IF n = 0 THEN 0
    ELSE (IF (a % 2 = 1) \/ (b % 2 = 1) THEN 1 ELSE 0)
         + 2 * OrU(a \div 2, b \div 2, n - 1)

\* the low 16 bits of a | b on int operands in two's complement
BitOr(a, b) == OrU(a % Pow2(16), b % Pow2(16), 16)

\* a & b for a mask b of one bit
TestBit(a, b) == (a \div b) % 2 = 1

\* x >> k on a signed operand (arithmetic shift)
ShiftRight(x, k) == x \div Pow2(k)

\* x << 8 on a byte promoted to int
ShiftLeft8(x) == x * 256

\* integer division of C, truncating toward zero
TruncDiv(a, b) == IF a >= 0 THEN a \div b ELSE -((-a) \div b)

MaxInt32 == 2147483647

\* The low 16 bits of sum / n for an int32_t sum and a uint32_t n.  The usual
\* arithmetic conversions make both operands unsigned 32-bit, so a negative
\* sum is divided as 2^32 + sum.  With 2^31 - 1 = q0 * n + r0,
\* 2^32 + sum = (2 * q0) * n + (2 * r0 + 2 + sum), and the quotient is
\* 2 * q0 + (2 * r0 + 2 + sum) \div n (\div rounds down).
DivU32(sum, n) ==
    IF sum >= 0 THEN (sum \div n) % Pow2(16)
    ELSE LET q0 == MaxInt32 \div n
             r0 == MaxInt32 % n
         IN (2 * (q0 % Pow2(15)) + ((2 * r0 + 2 + sum) \div n)) % Pow2(16)

Min(a, b) == IF a < b THEN a ELSE b

\* n copies of the sequence s, one after the other
Repeat(s, n) ==
    IF n <= 0 \/ Len(s) = 0 THEN <<>>
    ELSE [j \in 1..(n * Len(s)) |-> s[((j - 1) % Len(s)) + 1]]

\* ------------------------------------------------------ bus transactions
\* One entry of the transaction log: i2c_safe_write, i2c_safe_read and
\* i2c_device_exists with their arguments, whether they succeeded and the
\* bytes they received (res is what the read or the probe gave).
Write(a, r, v, ok) ==
    [t |-> "write", addr |-> a, reg |-> r, val |-> v, ok |-> ok, data |-> <<>>]

Read(a, r, n, res) ==
    [t |-> "read", addr |-> a, reg |-> r, val |-> n, ok |-> res.ok,
     data |-> IF res.ok THEN res.data ELSE <<>>]

Probe(a, r, res) ==
    [t |-> "probe", addr |-> a, reg |-> r, val |-> 0, ok |-> res.exists,
     data |-> IF res.exists THEN <<res.chip_id>> ELSE <<>>]

\* What i2c_device_exists(addr, &chip_id, reg) can give: false with chip_id
\* left at 0, or true with the byte the device sent.
IdBytes == {0, BMM150_ID, BMI160_ID}

ProbeResults ==
    {[exists |-> FALSE, chip_id |-> 0]}
    \cup {[exists |-> TRUE, chip_id |-> b] : b \in IdBytes}

\* What i2c_safe_read(addr, reg, buf, len) can give: false with buf untouched,
\* or true with the bytes read.
ReadResults(bufs) ==
    {[ok |-> FALSE, data |-> <<>>]} \cup {[ok |-> TRUE, data |-> d] : d \in bufs}

Zero8 == <<0, 0, 0, 0, 0, 0, 0, 0>>

\* magnetometer data windows X, Y, Z, RHALL (little-endian words)
MagBufA == <<16, 0, 32, 0, 8, 0, 1, 0>>

MagBufB == <<248, 255, 240, 255, 254, 255, 255, 255>>

\* 20-byte windows of the primary chip: magnetometer shadow (0-7), gyroscope
\* (8-13), accelerometer (14-19)
BurstBufA == MagBufA \o <<255, 255, 254, 255, 3, 0>> \o <<253, 255, 0, 128, 255, 127>>

BurstBufB == MagBufB \o <<1, 0, 2, 0, 3, 0>> \o <<4, 0, 5, 0, 6, 0>>

\* ---------------------------------------------------------------- state
VARIABLES
    pc,            \* position of the process: a step of IMU_begin, or "ready"
    i,             \* IMU_begin: index into candidates[]
    addr,          \* IMU_begin: loop variable of the magnetometer searches
    bmi160_addr, bmm150_addr, mag_mode, initialized,
    config, ACC_LSB, GYR_LSB,
    last_time, acc_sum, gyr_sum, mag_sum, rhall_sum, samples,
    now,           \* millis()
    out,           \* the caller's buffers acc[3], gyr[3], mag[3], *rhall
    call,          \* the last public call: operation, argument, what it returned
    bus_log,       \* the bus transactions of the last step
    window,        \* history: the raw samples accumulated since the last flush
    trail          \* history: the magnetometer candidates IMU_begin has tried

topology == <<bmi160_addr, bmm150_addr, mag_mode, initialized>>

factors == <<config, ACC_LSB, GYR_LSB>>

accumulator == <<last_time, acc_sum, gyr_sum, mag_sum, rhall_sum, samples, window>>

vars == <<pc, i, addr, topology, factors, accumulator, now, out, call, bus_log, trail>>

Sample(a, g, m, r) == [acc |-> a, gyr |-> g, mag |-> m, rhall |-> r]

ZeroSample == Sample(<<0, 0, 0>>, <<0, 0, 0>>, <<0, 0, 0>>, 0)

\* what a caller's buffers may hold before a call
StaleSample == Sample(<<7, 7, 7>>, <<7, 7, 7>>, <<7, 7, 7>>, 7)

CallerBuffers == {ZeroSample, StaleSample}

candidates == <<BMI160_ADDR_68, BMI160_ADDR_69>>

\* ------------------------------------------------- conversion factor table
\* GYR_LSB is kept in thousandths (16.384f is 16384).
AccTable(range, old) ==
    CASE range = 3 -> 16384
      [] range = 5 -> 8192
      [] range = 8 -> 4096
      [] range = 12 -> 2048
      [] OTHER -> old

GyrTable(range, old) ==
    CASE range = 0 -> 16384
      [] range = 1 -> 32768
      [] range = 2 -> 65536
      [] range = 3 -> 131072
      [] range = 4 -> 262144
      [] OTHER -> old

\* a variant of update_conversion_factors that recomputes the accelerometer
\* factor only
update_accel_factor_only(cfg, acc_lsb, gyr_lsb) ==
    <<AccTable(cfg.acc_range, acc_lsb), gyr_lsb>>

\* update_conversion_factors(): <<ACC_LSB, GYR_LSB>> for configuration cfg
update_conversion_factors(cfg, acc_lsb, gyr_lsb) ==
    <<AccTable(cfg.acc_range, acc_lsb), GyrTable(cfg.gyr_range, gyr_lsb)>>

Init ==
    /\ pc = "probe"
    /\ i = 0
    /\ addr = 0
    /\ bmi160_addr = 0
    /\ bmm150_addr = 0
    /\ mag_mode = NONE
    /\ initialized = FALSE
    /\ config = [acc_odr |-> 40, acc_range |-> 5, gyr_odr |-> 40, gyr_range |-> 0]
    /\ ACC_LSB = 8192
    /\ GYR_LSB = 16384
    /\ last_time = 0
    /\ acc_sum = <<0, 0, 0>>
    /\ gyr_sum = <<0, 0, 0>>
    /\ mag_sum = <<0, 0, 0>>
    /\ rhall_sum = 0
    /\ samples = 0
    /\ now = 0
    /\ out \in CallerBuffers
    /\ call = [op |-> "none", arg |-> 0, ret |-> 0]
    /\ bus_log = <<>>
    /\ window = <<>>
    /\ trail = <<>>

Call(op, arg, ret) == [op |-> op, arg |-> arg, ret |-> ret]

\* -------------------------------------------------- magnetometer bring-up
\* The bus during init_bmm150_primary: the power-on write, then the read of
\* the identity register.
DirectBus ==
    {[w |-> FALSE, r |-> [ok |-> FALSE, data |-> <<>>]]}
    \cup {[w |-> TRUE, r |-> x] : x \in ReadResults({<<b>> : b \in IdBytes})}

\* a variant of init_bmm150_primary that accepts whatever identity byte it
\* reads
init_bmm150_primary_any_id(a, b) ==
    IF ~b.w
    THEN [ok |-> FALSE, log |-> <<Write(a, BMM150_POWER, 1, FALSE)>>]
    ELSE [ok |-> b.r.ok,
          log |-> <<Write(a, BMM150_POWER, 1, TRUE), Read(a, BMM150_CHIP_ID, 1, b.r)>>]

\* init_bmm150_primary(addr) on bus b: the result and the transactions made
init_bmm150_primary(a, b) ==
    IF ~b.w
    THEN [ok |-> FALSE, log |-> <<Write(a, BMM150_POWER, 1, FALSE)>>]
    ELSE IF ~b.r.ok
    THEN [ok |-> FALSE,
          log |-> <<Write(a, BMM150_POWER, 1, TRUE), Read(a, BMM150_CHIP_ID, 1, b.r)>>]
    ELSE [ok |-> (b.r.data[1] = BMM150_ID),
          log |-> <<Write(a, BMM150_POWER, 1, TRUE), Read(a, BMM150_CHIP_ID, 1, b.r)>>]

\* a variant of SecondaryWrites that sets the operating mode before it has
\* switched the power on
SecondaryWritesModeFirst(sec_addr) ==
    << <<BMI160_MAG_IF_0, sec_addr>>, <<BMI160_MAG_IF_1, 128>>,
       <<BMI160_MAG_IF_3, 76>>, <<BMI160_MAG_IF_4, 6>>, <<BMI160_MAG_IF_1, 128>>,
       <<BMI160_MAG_IF_3, 75>>, <<BMI160_MAG_IF_1, 0>>,
       <<BMI160_MAG_IF_3, 75>>, <<BMI160_MAG_IF_4, 1>>, <<BMI160_MAG_IF_1, 128>>,
       <<BMI160_MAG_CONF, 11>>, <<BMI160_MAG_IF_2, 66>>, <<BMI160_MAG_IF_1, 3>>,
       <<BMI160_CMD, BMI160_CMD_MAG_NORMAL>> >>

\* The single-register writes of init_bmm150_secondary, in program order.
\* 0x80 | (1 << 7) is 0x80.
SecondaryWrites(sec_addr) ==
    << <<BMI160_MAG_IF_0, sec_addr>>, <<BMI160_MAG_IF_1, 128>>,
       <<BMI160_MAG_IF_3, 75>>, <<BMI160_MAG_IF_4, 1>>, <<BMI160_MAG_IF_1, 128>>,
       <<BMI160_MAG_IF_3, 75>>, <<BMI160_MAG_IF_1, 0>>,
       <<BMI160_MAG_IF_3, 76>>, <<BMI160_MAG_IF_4, 6>>, <<BMI160_MAG_IF_1, 128>>,
       <<BMI160_MAG_CONF, 11>>, <<BMI160_MAG_IF_2, 66>>, <<BMI160_MAG_IF_1, 3>>,
       <<BMI160_CMD, BMI160_CMD_MAG_NORMAL>> >>

\* a variant of IssuedWrites that goes on writing after a write has failed
IssuedWritesRegardless(a, ws, lo, hi, nw) ==
    [j \in 1..(hi - lo + 1) |->
        Write(a, ws[lo + j - 1][1], ws[lo + j - 1][2], lo + j - 1 <= nw)]

\* Writes lo..hi of ws to device a when the first nw writes of the run
\* succeed and write nw+1 fails: each `if (!i2c_safe_write(..)) return false`
\* ends the run at the first failure.
IssuedWrites(a, ws, lo, hi, nw) ==
    LET last == Min(hi, nw + 1) IN
    IF last < lo THEN <<>>
    ELSE [j \in 1..(last - lo + 1) |->
             Write(a, ws[lo + j - 1][1], ws[lo + j - 1][2], lo + j - 1 <= nw)]

\* a variant of AllZero that reports no buffer as all zero
NeverAllZero(data) == FALSE

AllZero(data) == \A j \in 1..Len(data) : data[j] = 0

\* One iteration of a data-ready poll: the status read and, in the sequencer,
\* the read of the shadow buffer that follows a set drdy_mag bit.
StatusReads == ReadResults({<<0>>, <<DRDY_MAG_BIT>>})

ShadowReads == ReadResults({Zero8, MagBufA})

Ready(it) == it.st.ok /\ TestBit(it.st.data[1], DRDY_MAG_BIT)

IterAccepts(it) == Ready(it) /\ it.d.ok /\ ~AllZero(it.d.data)

IterLog(a, it) ==
    <<Read(a, BMI160_STATUS, 1, it.st)>>
    \o (IF Ready(it) THEN <<Read(a, BMI160_DATA_0, 8, it.d)>> ELSE <<>>)

NoRead == [ok |-> FALSE, data |-> <<>>]

\* iterations that do not end the poll loop of the sequencer
RejectIters ==
    { [st |-> NoRead, d |-> NoRead],
      [st |-> [ok |-> TRUE, data |-> <<0>>], d |-> NoRead],
      [st |-> [ok |-> TRUE, data |-> <<DRDY_MAG_BIT>>], d |-> NoRead],
      [st |-> [ok |-> TRUE, data |-> <<DRDY_MAG_BIT>>], d |-> [ok |-> TRUE, data |-> Zero8]] }

AcceptIter ==
    [st |-> [ok |-> TRUE, data |-> <<DRDY_MAG_BIT>>], d |-> [ok |-> TRUE, data |-> MagBufA]]

\* The bus during one run of init_bmm150_secondary: the probe of the primary
\* chip, how many writes succeed (nw), the relayed power status (ps), the
\* iterations before the accepting one (pre), the accepting iteration (hit, 0
\* for none) and the read made after the loop ran out (final).
GoodBus ==
    [probe |-> TRUE, nw |-> 14, ps |-> [ok |-> TRUE, data |-> <<1>>],
     pre |-> [st |-> NoRead, d |-> NoRead], hit |-> 1, final |-> NoRead]

PollHits == {1, 2, INIT_POLLS}

SecondaryBus ==
    {[GoodBus EXCEPT !.probe = FALSE]}
    \cup {[GoodBus EXCEPT !.nw = k] : k \in 0..13}
    \cup {[GoodBus EXCEPT !.ps = r] : r \in ReadResults({<<0>>, <<1>>, <<255>>})}
    \cup {[GoodBus EXCEPT !.pre = p, !.hit = h] : p \in RejectIters, h \in PollHits}
    \cup {[GoodBus EXCEPT !.pre = p, !.hit = 0, !.final = f] :
             p \in RejectIters, f \in ShadowReads}

\* init_bmm150_secondary(phys_addr) with the primary chip at bmi, on bus b
init_bmm150_secondary(phys_addr, bmi, b) ==
    LET sec_addr == ShiftRight(phys_addr, 1)
        ws == SecondaryWrites(sec_addr)
        l0 == <<Probe(bmi, BMI160_CHIP_ID,
                    [exists |-> b.probe, chip_id |-> IF b.probe THEN BMI160_ID ELSE 0])>>
        l1 == l0 \o IssuedWrites(bmi, ws, 1, 7, b.nw)
        l2 == l1 \o <<Read(bmi, BMI160_MAG_IF_4, 1, b.ps)>>
        l3 == l2 \o IssuedWrites(bmi, ws, 8, 14, b.nw)
        polled == IF b.hit > 0
                  THEN Repeat(IterLog(bmi, b.pre), b.hit - 1) \o IterLog(bmi, AcceptIter)
                  ELSE Repeat(IterLog(bmi, b.pre), INIT_POLLS)
                       \o <<Read(bmi, BMI160_DATA_0, 8, b.final)>>
    IN
    IF ~b.probe THEN [ok |-> FALSE, log |-> l0]
    ELSE IF b.nw < 7 THEN [ok |-> FALSE, log |-> l1]
    ELSE IF ~b.ps.ok \/ b.ps.data[1] # 1 THEN [ok |-> FALSE, log |-> l2]
    ELSE IF b.nw < 14 THEN [ok |-> FALSE, log |-> l3]
    ELSE IF b.hit > 0 THEN [ok |-> IterAccepts(AcceptIter), log |-> l3 \o polled]
    ELSE [ok |-> (b.final.ok /\ ~AllZero(b.final.data)), log |-> l3 \o polled]

\* ------------------------------------------------------------- IMU_begin
\* The seven configuration writes of IMU_begin.
ConfigWrites(cfg) ==
    << <<BMI160_ACC_CONF, cfg.acc_odr>>, <<BMI160_ACC_RANGE, cfg.acc_range>>,
       <<BMI160_GYR_CONF, cfg.gyr_odr>>, <<BMI160_GYR_RANGE, cfg.gyr_range>>,
       <<BMI160_CMD, BMI160_CMD_SOFTRESET>>, <<BMI160_CMD, BMI160_CMD_ACC_NORMAL>>,
       <<BMI160_CMD, BMI160_CMD_GYR_NORMAL>> >>

\* Whether write k of the configuration is reached when the writes succeed as
\* w says.  With IMU_BMI160_BMM150_DEBUG undefined the first four `if (write)`
\* have no statement of their own: each governs the `if` that follows it, so
\* writes 2..5 are reached only when every earlier one succeeded.  With the
\* macro defined every write is reached.
ConfigReached(k, w, debug) ==
    IF debug \/ k >= 6 THEN TRUE ELSE \A j \in 1..(k - 1) : w[j]

RECURSIVE ConfigLog(_, _, _, _, _)
ConfigLog(a, cfg, w, debug, k) ==
    IF k > 7 THEN <<>>
    ELSE (IF ConfigReached(k, w, debug)
          THEN <<Write(a, ConfigWrites(cfg)[k][1], ConfigWrites(cfg)[k][2], w[k])>>
          ELSE <<>>)
         \o ConfigLog(a, cfg, w, debug, k + 1)

\* a variant of BeginProbe that takes any device that answers, whatever
\* identity byte it sends
BeginProbeAnyIdentity ==
    /\ pc = "probe"
    /\ \E r \in ProbeResults :
          LET found == r.exists
              bmi == IF found THEN candidates[i + 1] ELSE bmi160_addr
          IN
          /\ bus_log' = <<Probe(candidates[i + 1], BMI160_CHIP_ID, r)>>
          /\ bmi160_addr' = bmi
          /\ IF found \/ i + 1 >= 2
             THEN /\ i' = 0
                  /\ pc' = IF bmi # 0 THEN "config" ELSE "direct"
                  /\ addr' = IF bmi # 0 THEN 0 ELSE MAG_ADDR_FIRST
             ELSE /\ i' = i + 1
                  /\ pc' = pc
                  /\ addr' = addr
    /\ UNCHANGED <<bmm150_addr, mag_mode, initialized, factors, accumulator, now, trail, out, call>>

\* the primary chip search: one iteration of the loop over candidates[]
BeginProbe ==
    /\ pc = "probe"
    /\ \E r \in ProbeResults :
          LET found == r.exists /\ r.chip_id = BMI160_ID
              bmi == IF found THEN candidates[i + 1] ELSE bmi160_addr
          IN
          /\ bus_log' = <<Probe(candidates[i + 1], BMI160_CHIP_ID, r)>>
          /\ bmi160_addr' = bmi
          /\ IF found \/ i + 1 >= 2
             THEN /\ i' = 0
                  /\ pc' = IF bmi # 0 THEN "config" ELSE "direct"
                  /\ addr' = IF bmi # 0 THEN 0 ELSE MAG_ADDR_FIRST
             ELSE /\ i' = i + 1
                  /\ pc' = pc
                  /\ addr' = addr
    /\ UNCHANGED <<bmm150_addr, mag_mode, initialized, factors, accumulator, now, trail, out, call>>

\* `if (bmi160_addr) { ... }`: configuration of the primary chip
BeginConfigure ==
    /\ pc = "config"
    /\ \E w \in [1..7 -> BOOLEAN], debug \in BOOLEAN :
          bus_log' = ConfigLog(bmi160_addr, config, w, debug, 1)
    /\ ACC_LSB' = update_conversion_factors(config, ACC_LSB, GYR_LSB)[1]
    /\ GYR_LSB' = update_conversion_factors(config, ACC_LSB, GYR_LSB)[2]
    /\ pc' = "direct"
    /\ addr' = MAG_ADDR_FIRST
    /\ UNCHANGED <<i, topology, config, accumulator, now, trail, out, call>>

\* one candidate tried by a tier of the magnetometer search, and how it ended
Attempt(tier, a, ok) == [tier |-> tier, addr |-> a, ok |-> ok]

\* a variant of AfterDirect that goes from a failed direct search straight to
\* the sweep, with or without the primary chip
AfterDirectToSweep(bmi, bmm) == IF bmm = 0 THEN "sweep" ELSE "finish"

\* a variant of AfterDirect that tries the bridge whether or not the primary
\* chip was found
AfterDirectAlwaysBridged(bmi, bmm) == IF bmm = 0 THEN "bridged" ELSE "finish"

\* where IMU_begin goes after the direct search
AfterDirect(bmi, bmm) == IF bmi # 0 /\ bmm = 0 THEN "bridged" ELSE "finish"

\* the direct search: one iteration of the loop over 0x10..0x13
BeginDirect ==
    /\ pc = "direct"
    /\ \E b \in DirectBus :
          LET r == init_bmm150_primary(addr, b) IN
          /\ bus_log' = r.log
          /\ trail' = Append(trail, Attempt("direct", addr, r.ok))
          /\ bmm150_addr' = IF r.ok THEN addr ELSE bmm150_addr
          /\ mag_mode' = IF r.ok THEN PRIMARY ELSE mag_mode
          /\ IF r.ok \/ addr + 1 > MAG_ADDR_LAST
             THEN /\ pc' = AfterDirect(bmi160_addr, IF r.ok THEN addr ELSE bmm150_addr)
                  /\ addr' = IF pc' = "bridged" THEN MAG_ADDR_FIRST ELSE 0
             ELSE /\ pc' = pc
                  /\ addr' = addr + 1
    /\ UNCHANGED <<i, bmi160_addr, initialized, factors, accumulator, now, out, call>>

\* the bridged search: one iteration of the loop over 0x10..0x13
BeginBridged ==
    /\ pc = "bridged"
    /\ \E b \in SecondaryBus :
          LET r == init_bmm150_secondary(addr, bmi160_addr, b) IN
          /\ bus_log' = r.log
          /\ trail' = Append(trail, Attempt("bridged", addr, r.ok))
          /\ bmm150_addr' = IF r.ok THEN addr ELSE bmm150_addr
          /\ mag_mode' = IF r.ok THEN SECONDARY ELSE mag_mode
          /\ IF r.ok
             THEN /\ pc' = "finish"
                  /\ addr' = 0
             ELSE IF addr + 1 > MAG_ADDR_LAST
             THEN /\ pc' = "sweep"
                  /\ addr' = SWEEP_FIRST
             ELSE /\ pc' = pc
                  /\ addr' = addr + 1
    /\ UNCHANGED <<i, bmi160_addr, initialized, factors, accumulator, now, out, call>>

\* the addresses at which a device answers the sweep with the magnetometer's
\* identity byte
SweepResponders == {SWEEP_FIRST, MAG_ADDR_FIRST, SWEEP_LAST}

SweepResults(a) ==
    IF a \in SweepResponders THEN ProbeResults
    ELSE {r \in ProbeResults : r.chip_id # BMM150_ID}

\* a variant of BeginSweep whose loop variable wraps from 0x7F to 0x00
\* instead of ending the loop
BeginSweepWraps ==
    /\ pc = "sweep"
    /\ \E r \in SweepResults(addr) :
          LET found == r.exists /\ r.chip_id = BMM150_ID IN
          /\ bus_log' = <<Probe(addr, BMM150_CHIP_ID, r)>>
          /\ trail' = Append(trail, Attempt("sweep", addr, found))
          /\ bmm150_addr' = IF found THEN addr ELSE bmm150_addr
          /\ mag_mode' = IF found THEN PRIMARY ELSE mag_mode
          /\ IF found
             THEN /\ pc' = "finish"
                  /\ addr' = 0
             ELSE /\ pc' = pc
                  /\ addr' = (addr + 1) % (SWEEP_LAST + 1)
    /\ UNCHANGED <<i, bmi160_addr, initialized, factors, accumulator, now, out, call>>

\* the full-bus sweep: one iteration of the loop over 0x00..0x7F
BeginSweep ==
    /\ pc = "sweep"
    /\ \E r \in SweepResults(addr) :
          LET found == r.exists /\ r.chip_id = BMM150_ID IN
          /\ bus_log' = <<Probe(addr, BMM150_CHIP_ID, r)>>
          /\ trail' = Append(trail, Attempt("sweep", addr, found))
          /\ bmm150_addr' = IF found THEN addr ELSE bmm150_addr
          /\ mag_mode' = IF found THEN PRIMARY ELSE mag_mode
          /\ IF found \/ addr + 1 > SWEEP_LAST
             THEN /\ pc' = "finish"
                  /\ addr' = 0
             ELSE /\ pc' = pc
                  /\ addr' = addr + 1
    /\ UNCHANGED <<i, bmi160_addr, initialized, factors, accumulator, now, out, call>>

\* every <<bmi160_addr, bmm150_addr, mag_mode>>
Topologies == {0, BMI160_ADDR_68, BMI160_ADDR_69} \X (SWEEP_FIRST..SWEEP_LAST) \X {NONE, PRIMARY, SECONDARY}

\* a variant of BeginReturn that sets the flag when either device was found
BeginReturnEitherDevice(topos) ==
    /\ pc = "finish"
    /\ <<bmi160_addr, bmm150_addr, mag_mode>> \in topos
    /\ initialized' = IF bmi160_addr = 0 /\ bmm150_addr = 0 THEN initialized ELSE TRUE
    /\ call' = Call("IMU_begin", 0, initialized')
    /\ bus_log' = <<>>
    /\ pc' = "ready"
    /\ UNCHANGED <<i, addr, bmi160_addr, bmm150_addr, mag_mode, factors, accumulator, now, trail, out>>

\* `if (!bmm150_addr) {} else { initialized = true; }  return initialized;`
\* topos: the outcomes of discovery a specification goes on from
BeginReturn(topos) ==
    /\ pc = "finish"
    /\ <<bmi160_addr, bmm150_addr, mag_mode>> \in topos
    /\ initialized' = IF bmm150_addr = 0 THEN initialized ELSE TRUE
    /\ call' = Call("IMU_begin", 0, initialized')
    /\ bus_log' = <<>>
    /\ pc' = "ready"
    /\ UNCHANGED <<i, addr, bmi160_addr, bmm150_addr, mag_mode, factors, accumulator, now, trail, out>>

\* --------------------------------------------------------- IMU_readData
\* a variant of Word that keeps the word unsigned
WordUnsigned(buf, hi, lo) == BitOr(ShiftLeft8(buf[hi + 1]), buf[lo + 1])

\* (int16_t)(buf[hi] << 8) | buf[lo], stored into an int16_t
Word(buf, hi, lo) == ToS16(BitOr(ToS16(ShiftLeft8(buf[hi + 1])), buf[lo + 1]))

\* a variant of ShiftedWord that shifts the word before it is made signed
ShiftedWordLogical(buf, hi, lo, k) ==
    ToS16(ShiftRight(BitOr(ShiftLeft8(buf[hi + 1]), buf[lo + 1]), k))

\* (int16_t)((buf[hi] << 8) | buf[lo]) >> k, stored into an int16_t
ShiftedWord(buf, hi, lo, k) ==
    ToS16(ShiftRight(ToS16(BitOr(ShiftLeft8(buf[hi + 1]), buf[lo + 1])), k))

\* The writes of send_forced_mode_secondary before its first poll.
ForcedWrites(a) ==
    << <<BMI160_BMM150_IF, 1>>, <<BMI160_MAG_IF_0, a>>, <<BMI160_MAG_IF_1, 128>>,
       <<BMI160_MAG_IF_3, BMM150_OPMODE>>, <<BMI160_MAG_IF_4, BMM150_FORCED_MODE>>,
       <<BMI160_MAG_IF_1, 128>> >>

\* The bus during send_forced_mode_secondary: how many of the six writes
\* succeed (nw), the status read of the iterations before the one that finds
\* the bit set (pre), that iteration in the first and in the second poll loop
\* (hit1, hit2; 0 for none) and the outcome of the three recovery writes (rw).
GoodTrigger ==
    [nw |-> 6, pre |-> NoRead, hit1 |-> 1, rw |-> <<TRUE, TRUE, TRUE>>, hit2 |-> 0]

ForcedHits == {1, FORCED_POLLS}

StatusRejects == {NoRead, [ok |-> TRUE, data |-> <<0>>]}

TriggerBus ==
    {[GoodTrigger EXCEPT !.nw = k] : k \in 0..5}
    \cup {[GoodTrigger EXCEPT !.pre = p, !.hit1 = h] : p \in StatusRejects, h \in ForcedHits}
    \cup {[GoodTrigger EXCEPT !.pre = p, !.hit1 = 0, !.rw = w, !.hit2 = h] :
             p \in StatusRejects,
             w \in {<<TRUE, TRUE, TRUE>>, <<FALSE, FALSE, FALSE>>},
             h \in ForcedHits \cup {0}}

\* one poll loop of send_forced_mode_secondary: the status reads made when
\* iteration hit (0: none) is the first to find drdy_mag set
ForcedPollLog(bmi, pre, hit) ==
    IF hit > 0
    THEN Repeat(<<Read(bmi, BMI160_STATUS, 1, pre)>>, hit - 1)
         \o <<Read(bmi, BMI160_STATUS, 1, [ok |-> TRUE, data |-> <<DRDY_MAG_BIT>>])>>
    ELSE Repeat(<<Read(bmi, BMI160_STATUS, 1, pre)>>, FORCED_POLLS)

\* send_forced_mode_secondary(addr) with the primary chip at bmi, on bus b
send_forced_mode_secondary(a, bmi, b) ==
    LET l1 == IssuedWrites(bmi, ForcedWrites(a), 1, 6, b.nw)
        l2 == l1 \o ForcedPollLog(bmi, b.pre, b.hit1)
        l3 == l2 \o <<Write(bmi, BMI160_MAG_IF_3, 75, b.rw[1]),
                      Write(bmi, BMI160_MAG_IF_4, 1, b.rw[2]),
                      Write(bmi, BMI160_MAG_IF_1, 128, b.rw[3])>>
                 \o ForcedPollLog(bmi, b.pre, b.hit2)
    IN
    IF b.nw < 6 THEN [ok |-> FALSE, log |-> l1]
    ELSE IF b.hit1 > 0 THEN [ok |-> TRUE, log |-> l2]
    ELSE [ok |-> (b.hit2 > 0), log |-> l3]

\* a variant of ResetBuffers that clears the accelerometer and gyroscope
\* buffers only
KeepMagBuffers(buf) == [buf EXCEPT !.acc = <<0, 0, 0>>, !.gyr = <<0, 0, 0>>]

\* a variant of ResetBuffers that leaves the caller's buffers as they were
KeepBuffers(buf) == buf

\* `acc[0] = acc[1] = acc[2] = 0; ... *rhall = 0;` on the buffers passed in
ResetBuffers(buf) == ZeroSample

\* the buffers the bus may return, and their words decoded once
BurstBuffers == {BurstBufA, BurstBufB}

MagBuffers == {MagBufA, MagBufB}

\* BurstWords[buf][k + 1]: the word of IMU_readData at bytes 2k, 2k+1
BurstWords == [buf \in BurstBuffers |-> [k \in 1..10 |-> Word(buf, 2 * k - 1, 2 * k - 2)]]

\* MagWords[buf]: mag[0], mag[1], mag[2], *rhall of read_bmm150_forced
MagWords ==
    [buf \in MagBuffers |->
        <<ShiftedWord(buf, 1, 0, 3), ShiftedWord(buf, 3, 2, 3),
          ShiftedWord(buf, 5, 4, 1), ShiftedWord(buf, 7, 6, 0)>>]

\* read_bmm150_forced(mag, rhall) into sample s: w is the outcome of the
\* forced-mode write, r of the read of the data window
read_bmm150_forced(s, bmm, w, r) ==
    IF ~w
    THEN [s |-> [s EXCEPT !.mag = <<0, 0, 0>>, !.rhall = 0],
          log |-> <<Write(bmm, BMM150_OPMODE, BMM150_FORCED_MODE, FALSE)>>]
    ELSE IF ~r.ok
    THEN [s |-> [s EXCEPT !.mag = <<0, 0, 0>>, !.rhall = 0],
          log |-> <<Write(bmm, BMM150_OPMODE, BMM150_FORCED_MODE, TRUE),
                    Read(bmm, BMM150_DATA_X, 8, r)>>]
    ELSE [s |-> [s EXCEPT !.mag = <<MagWords[r.data][1], MagWords[r.data][2],
                                   MagWords[r.data][3]>>,
                          !.rhall = MagWords[r.data][4]],
          log |-> <<Write(bmm, BMM150_OPMODE, BMM150_FORCED_MODE, TRUE),
                    Read(bmm, BMM150_DATA_X, 8, r)>>]

\* the decode of a successful 20-byte burst read into sample s: gyroscope at
\* bytes 8..13, accelerometer at 14..19, in SECONDARY mode the magnetometer
\* shadow at 0..7
DecodeBurst(s, buf, mode) ==
    LET w == BurstWords[buf]
        ag == [s EXCEPT !.acc = <<w[8], w[9], w[10]>>, !.gyr = <<w[5], w[6], w[7]>>]
    IN IF mode = SECONDARY
       THEN [ag EXCEPT !.mag = <<w[1], w[2], w[3]>>, !.rhall = w[4]]
       ELSE ag

\* The bus during IMU_readData: the forced-mode trigger, the burst read, and
\* the write and the read of read_bmm150_forced.
ReadBus(trigs, bursts, mags, bmi, mode) ==
    [trig : IF bmi # 0 /\ mode = SECONDARY THEN trigs ELSE {GoodTrigger},
     burst : IF bmi # 0 THEN ReadResults(bursts) ELSE {NoRead},
     magw : IF mode = PRIMARY THEN BOOLEAN ELSE {TRUE},
     magr : IF mode = PRIMARY THEN ReadResults(mags) ELSE {NoRead}]

\* a variant of IMU_readData that clears the buffers only when it has a
\* primary chip to read
IMU_readDataResetWithChip(buf, bmi, bmm, mode, b) ==
    LET s0 == IF bmi # 0 THEN ResetBuffers(buf) ELSE buf
        trig == IF bmi # 0 /\ mode = SECONDARY
                THEN send_forced_mode_secondary(bmm, bmi, b.trig).log
                ELSE <<>>
        l1 == IF bmi # 0
              THEN trig \o <<Read(bmi, BMI160_DATA_0, 20, b.burst)>>
              ELSE <<>>
        s1 == IF bmi # 0 /\ b.burst.ok THEN DecodeBurst(s0, b.burst.data, mode) ELSE s0
        m == read_bmm150_forced(s1, bmm, b.magw, b.magr)
    IN IF mode = PRIMARY
       THEN [s |-> m.s, log |-> l1 \o m.log]
       ELSE [s |-> s1, log |-> l1]

\* a variant of IMU_readData that reads the burst only when the forced-mode
\* trigger succeeded
IMU_readDataIfTriggered(buf, bmi, bmm, mode, b) ==
    LET s0 == ResetBuffers(buf)
        t == send_forced_mode_secondary(bmm, bmi, b.trig)
        bridged == bmi # 0 /\ mode = SECONDARY
        read == bmi # 0 /\ (bridged => t.ok)
        l1 == (IF bridged THEN t.log ELSE <<>>)
              \o (IF read THEN <<Read(bmi, BMI160_DATA_0, 20, b.burst)>> ELSE <<>>)
        s1 == IF read /\ b.burst.ok THEN DecodeBurst(s0, b.burst.data, mode) ELSE s0
        m == read_bmm150_forced(s1, bmm, b.magw, b.magr)
    IN IF mode = PRIMARY
       THEN [s |-> m.s, log |-> l1 \o m.log]
       ELSE [s |-> s1, log |-> l1]

\* IMU_readData(acc, gyr, mag, rhall) on the buffers buf: the buffers
\* afterwards and the transactions made
IMU_readData(buf, bmi, bmm, mode, b) ==
    LET s0 == ResetBuffers(buf)
        trig == IF bmi # 0 /\ mode = SECONDARY
                THEN send_forced_mode_secondary(bmm, bmi, b.trig).log
                ELSE <<>>
        l1 == IF bmi # 0
              THEN trig \o <<Read(bmi, BMI160_DATA_0, 20, b.burst)>>
              ELSE <<>>
        s1 == IF bmi # 0 /\ b.burst.ok THEN DecodeBurst(s0, b.burst.data, mode) ELSE s0
        m == read_bmm150_forced(s1, bmm, b.magw, b.magr)
    IN IF mode = PRIMARY
       THEN [s |-> m.s, log |-> l1 \o m.log]
       ELSE [s |-> s1, log |-> l1]

\* -------------------------------------------- IMU_readDataWithFrequency
\* a variant of EffectiveFrequency that applies the magnetometer's cap only
\* to a directly attached magnetometer
EffectiveFrequencyDirectOnly(frequency, mode) ==
    LET f == IF frequency <= 0 THEN DEFAULT_FREQUENCY ELSE frequency
        m1 == IF MAX_ACC_FREQUENCY > MAX_GYR_FREQUENCY
              THEN MAX_GYR_FREQUENCY ELSE MAX_ACC_FREQUENCY
        max_frequency == IF mode = PRIMARY /\ m1 > MAX_MAG_FREQUENCY
                         THEN MAX_MAG_FREQUENCY ELSE m1
    IN IF f > max_frequency THEN max_frequency ELSE f

\* the frequency used for a request, in Hz (requests are whole numbers of Hz)
EffectiveFrequency(frequency, mode) ==
    LET f == IF frequency <= 0 THEN DEFAULT_FREQUENCY ELSE frequency
        m1 == IF MAX_ACC_FREQUENCY > MAX_GYR_FREQUENCY
              THEN MAX_GYR_FREQUENCY ELSE MAX_ACC_FREQUENCY
        max_frequency == IF mode # NONE /\ m1 > MAX_MAG_FREQUENCY
                         THEN MAX_MAG_FREQUENCY ELSE m1
    IN IF f > max_frequency THEN max_frequency ELSE f

\* (unsigned long)(1000.0f / frequency)
Interval(frequency) == 1000 \div frequency

\* the width of unsigned long, scaled down: millis() counts modulo ClockWrap
ClockWrap == 32

\* current_time - last_time >= interval, the difference taken as unsigned long
Elapsed(current_time, last, interval) == (current_time - last) % ClockWrap >= interval

\* sum / samples stored into an int16_t, for each of the three axes
Average3(sum, n) == [k \in 1..3 |-> ToS16(DivU32(sum[k], n))]

Average(sum, n) == ToS16(DivU32(sum, n))

Add3(sum, raw) == [k \in 1..3 |-> sum[k] + raw[k]]

\* a variant of RatePush that pushes the rates only while no sample is
\* accumulated
RatePushWhenEmpty(bmi, w) ==
    IF bmi # 0 /\ samples = 0
    THEN <<Write(bmi, BMI160_ACC_CONF, 12, w[1]), Write(bmi, BMI160_GYR_CONF, 12, w[2])>>
    ELSE <<>>

\* the two output-rate writes made when the primary chip is present
RatePush(bmi, w) ==
    IF bmi # 0
    THEN <<Write(bmi, BMI160_ACC_CONF, 12, w[1]), Write(bmi, BMI160_GYR_CONF, 12, w[2])>>
    ELSE <<>>

\* a variant of Flush without the `samples > 0` guard: an empty accumulator
\* is delivered as an all-zero sample
FlushUnguarded(current_time, rate) ==
    /\ IF samples > 0
       THEN out' = Sample(Average3(acc_sum, samples), Average3(gyr_sum, samples),
                          Average3(mag_sum, samples), Average(rhall_sum, samples))
       ELSE out' = ZeroSample
    /\ acc_sum' = <<0, 0, 0>>
    /\ gyr_sum' = <<0, 0, 0>>
    /\ mag_sum' = <<0, 0, 0>>
    /\ rhall_sum' = 0
    /\ samples' = 0
    /\ window' = <<>>
    /\ last_time' = current_time
    /\ bus_log' = rate

\* the branch taken when the interval has elapsed
Flush(current_time, rate) ==
    /\ IF samples > 0
       THEN /\ out' = Sample(Average3(acc_sum, samples), Average3(gyr_sum, samples),
                             Average3(mag_sum, samples), Average(rhall_sum, samples))
            /\ acc_sum' = <<0, 0, 0>>
            /\ gyr_sum' = <<0, 0, 0>>
            /\ mag_sum' = <<0, 0, 0>>
            /\ rhall_sum' = 0
            /\ samples' = 0
            /\ window' = <<>>
       ELSE UNCHANGED <<out, acc_sum, gyr_sum, mag_sum, rhall_sum, samples, window>>
    /\ last_time' = current_time
    /\ bus_log' = rate

\* a variant of Accumulate that also hands the raw sample to the caller
AccumulateIntoCaller(raw, rate, trigs, bursts, mags, cap) ==
    /\ samples < cap
    /\ \E b \in ReadBus(trigs, bursts, mags, bmi160_addr, mag_mode) :
          \E r \in {IMU_readData(raw, bmi160_addr, bmm150_addr, mag_mode, b)} :
             /\ acc_sum' = Add3(acc_sum, r.s.acc)
             /\ gyr_sum' = Add3(gyr_sum, r.s.gyr)
             /\ mag_sum' = Add3(mag_sum, r.s.mag)
             /\ rhall_sum' = rhall_sum + r.s.rhall
             /\ window' = Append(window, r.s)
             /\ bus_log' = rate \o r.log
             /\ out' = r.s
    /\ samples' = samples + 1
    /\ UNCHANGED last_time

\* a variant of Accumulate that forgets `samples++`
AccumulateUncounted(raw, rate, trigs, bursts, mags, cap) ==
    /\ Len(window) < cap
    /\ \E b \in ReadBus(trigs, bursts, mags, bmi160_addr, mag_mode) :
          \E r \in {IMU_readData(raw, bmi160_addr, bmm150_addr, mag_mode, b)} :
             /\ acc_sum' = Add3(acc_sum, r.s.acc)
             /\ gyr_sum' = Add3(gyr_sum, r.s.gyr)
             /\ mag_sum' = Add3(mag_sum, r.s.mag)
             /\ rhall_sum' = rhall_sum + r.s.rhall
             /\ window' = Append(window, r.s)
             /\ bus_log' = rate \o r.log
    /\ UNCHANGED <<samples, out, last_time>>

\* the branch taken inside the accumulation window: one IMU_readData into
\* the local buffers raw, added to the sums (cap bounds the sample counter)
Accumulate(raw, rate, trigs, bursts, mags, cap) ==
    /\ samples < cap
    /\ \E b \in ReadBus(trigs, bursts, mags, bmi160_addr, mag_mode) :
          \E r \in {IMU_readData(raw, bmi160_addr, bmm150_addr, mag_mode, b)} :
             /\ acc_sum' = Add3(acc_sum, r.s.acc)
             /\ gyr_sum' = Add3(gyr_sum, r.s.gyr)
             /\ mag_sum' = Add3(mag_sum, r.s.mag)
             /\ rhall_sum' = rhall_sum + r.s.rhall
             /\ window' = Append(window, r.s)
             /\ bus_log' = rate \o r.log
    /\ samples' = samples + 1
    /\ UNCHANGED <<out, last_time>>

\* the polling loop calls at least this often between two changes of millis()
CallsPerTick == 2

\* how many IMU_readDataWithFrequency calls in a row, this one included, have
\* found millis() at current_time (counted up to CallsPerTick)
CallsAt(current_time) ==
    IF call.op = "IMU_readDataWithFrequency" /\ call.ret.at = current_time
    THEN Min(call.ret.nth + 1, CallsPerTick)
    ELSE 1

\* what the call reports: the frequency and interval it used, whether it took
\* the elapsed branch, how many IMU_readData calls and divisions it made, the
\* value of millis() it found and its place among the calls that found it
RateReport(f, interval, elapsed, n) ==
    [frequency |-> f, interval |-> interval, elapsed |-> elapsed,
     reads |-> IF elapsed THEN 0 ELSE 1,
     divisions |-> IF elapsed /\ n > 0 THEN 10 ELSE 0,
     at |-> now, nth |-> CallsAt(now)]

\* IMU_readDataWithFrequency(acc, gyr, mag, rhall, frequency); pushes are the
\* outcomes of the two output-rate writes
ReadDataWithFrequency(freqs, pushes, trigs, bursts, mags, cap) ==
    /\ pc = "ready"
    /\ \E frequency \in freqs, w \in pushes :
          LET f == EffectiveFrequency(frequency, mag_mode)
              interval == Interval(f)
              rate == RatePush(bmi160_addr, w)
              elapsed == Elapsed(now, last_time, interval)
          IN
          /\ IF elapsed
             THEN Flush(now, rate)
             ELSE Accumulate(StaleSample, rate, trigs, bursts, mags, cap)
          /\ call' = Call("IMU_readDataWithFrequency", frequency,
                          RateReport(f, interval, elapsed, samples))
    /\ UNCHANGED <<pc, i, addr, topology, factors, now, trail>>

\* IMU_readData(acc, gyr, mag, rhall) called on the caller's buffers
ReadData(trigs, bursts, mags) ==
    /\ pc = "ready"
    /\ \E b \in ReadBus(trigs, bursts, mags, bmi160_addr, mag_mode) :
          \E r \in {IMU_readData(out, bmi160_addr, bmm150_addr, mag_mode, b)} :
             /\ out' = r.s
             /\ bus_log' = r.log
    /\ call' = Call("IMU_readData", 0, 0)
    /\ UNCHANGED <<pc, i, addr, topology, factors, accumulator, now, trail>>

\* ------------------------------------------------------------ the setters
\* a variant of SetAccelRange that forgets the primary chip when the write
\* to it fails
SetAccelRangeDropsChip(codes) ==
    /\ pc = "ready"
    /\ \E range \in codes, ok \in BOOLEAN :
          /\ call' = Call("IMU_setAccelRange", range, 0)
          /\ IF bmi160_addr # 0
             THEN LET cfg == [config EXCEPT !.acc_range = range] IN
                  /\ bus_log' = <<Write(bmi160_addr, BMI160_ACC_RANGE, range, ok)>>
                  /\ config' = cfg
                  /\ ACC_LSB' = update_conversion_factors(cfg, ACC_LSB, GYR_LSB)[1]
                  /\ GYR_LSB' = update_conversion_factors(cfg, ACC_LSB, GYR_LSB)[2]
                  /\ bmi160_addr' = IF ok THEN bmi160_addr ELSE 0
             ELSE /\ bus_log' = <<>>
                  /\ UNCHANGED <<factors, bmi160_addr>>
    /\ UNCHANGED <<pc, i, addr, bmm150_addr, mag_mode, initialized, accumulator, now, trail, out>>

\* IMU_setAccelRange(range); ok is the outcome of the register write
SetAccelRange(codes) ==
    /\ pc = "ready"
    /\ \E range \in codes, ok \in BOOLEAN :
          /\ call' = Call("IMU_setAccelRange", range, 0)
          /\ IF bmi160_addr # 0
             THEN LET cfg == [config EXCEPT !.acc_range = range] IN
                  /\ bus_log' = <<Write(bmi160_addr, BMI160_ACC_RANGE, range, ok)>>
                  /\ config' = cfg
                  /\ ACC_LSB' = update_conversion_factors(cfg, ACC_LSB, GYR_LSB)[1]
                  /\ GYR_LSB' = update_conversion_factors(cfg, ACC_LSB, GYR_LSB)[2]
             ELSE /\ bus_log' = <<>>
                  /\ UNCHANGED factors
    /\ UNCHANGED <<pc, i, addr, topology, accumulator, now, trail, out>>

\* IMU_setGyroRange(range); ok is the outcome of the register write
SetGyroRange(codes) ==
    /\ pc = "ready"
    /\ \E range \in codes, ok \in BOOLEAN :
          /\ call' = Call("IMU_setGyroRange", range, 0)
          /\ IF bmi160_addr # 0
             THEN LET cfg == [config EXCEPT !.gyr_range = range] IN
                  /\ bus_log' = <<Write(bmi160_addr, BMI160_GYR_RANGE, range, ok)>>
                  /\ config' = cfg
                  /\ ACC_LSB' = update_conversion_factors(cfg, ACC_LSB, GYR_LSB)[1]
                  /\ GYR_LSB' = update_conversion_factors(cfg, ACC_LSB, GYR_LSB)[2]
             ELSE /\ bus_log' = <<>>
                  /\ UNCHANGED factors
    /\ UNCHANGED <<pc, i, addr, topology, accumulator, now, trail, out>>

GetMagMode ==
    /\ pc = "ready"
    /\ call' = Call("IMU_getMagMode", 0, mag_mode)
    /\ bus_log' = <<>>
    /\ UNCHANGED <<pc, i, addr, topology, factors, accumulator, now, trail, out>>

IsInitialized ==
    /\ pc = "ready"
    /\ call' = Call("IMU_isInitialized", 0, initialized)
    /\ bus_log' = <<>>
    /\ UNCHANGED <<pc, i, addr, topology, factors, accumulator, now, trail, out>>

\* millis() advances between two calls (limit bounds the clock)
Tick(steps, limit) ==
    /\ pc = "ready"
    /\ \E d \in steps :
          /\ now + d <= limit
          /\ now' = now + d
    /\ UNCHANGED <<pc, i, addr, topology, factors, accumulator, out, call, bus_log, trail>>

\* --------------------------------------------------------- specifications
\* valid range codes
AccCodes == {3, 5, 8, 12}

GyrCodes == {0, 1, 2, 3, 4}

\* requested frequencies: non-positive, below, at and above the caps
Frequencies == {-5, 0, 50, 100, 500, 2000}

BothPushes == {<<TRUE, TRUE>>, <<FALSE, FALSE>>}

\* a bus on which the trigger succeeds at once, and one on which its first
\* write fails
TriggerBusSmall == {GoodTrigger, [GoodTrigger EXCEPT !.nw = 0]}

\* Spec: discovery on any bus, then every public operation in any order.
Next ==
    \/ BeginProbe
    \/ BeginConfigure
    \/ BeginDirect
    \/ BeginBridged
    \/ BeginSweep
    \/ BeginReturn(Topologies)
    \/ ReadData(TriggerBusSmall, {BurstBufA}, {MagBufB})
    \/ ReadDataWithFrequency({2000}, BothPushes, TriggerBusSmall, {BurstBufA}, {MagBufB}, MaxSamples)
    \/ SetAccelRange({3})
    \/ SetGyroRange({1})
    \/ GetMagMode
    \/ IsInitialized
    \/ Tick({TickStep}, MaxTime)

Spec == Init /\ [][Next]_vars

\* SpecRate: discovery, then the rate limiter at 100 Hz (a 10 ms interval in
\* every topology) against a clock that advances in steps shorter than the
\* interval, in one topology of each kind.
MaxWindow == 3

MaxTimeRate == 20

RateStep == 5

RateTopologies ==
    { <<0, 0, NONE>>, <<BMI160_ADDR_68, 0, NONE>>,
      <<0, MAG_ADDR_FIRST, PRIMARY>>, <<BMI160_ADDR_68, MAG_ADDR_FIRST, SECONDARY>> }

RateCall ==
    ReadDataWithFrequency({100}, {<<TRUE, TRUE>>}, {GoodTrigger}, {BurstBufA}, {MagBufB}, MaxWindow)

NextRate ==
    \/ BeginProbe
    \/ BeginConfigure
    \/ BeginDirect
    \/ BeginBridged
    \/ BeginSweep
    \/ BeginReturn(RateTopologies)
    \/ RateCall
    \/ Tick({RateStep}, MaxTimeRate)

SpecRate == Init /\ [][NextRate]_vars

\* SpecFreq: discovery, then the rate limiter asked for every frequency of
\* Frequencies in every topology.
NextFreq ==
    \/ BeginProbe
    \/ BeginConfigure
    \/ BeginDirect
    \/ BeginBridged
    \/ BeginSweep
    \/ BeginReturn(Topologies)
    \/ ReadDataWithFrequency(Frequencies, {<<TRUE, TRUE>>}, {GoodTrigger}, {BurstBufA}, {MagBufB}, MaxSamples)
    \/ Tick({TickStep}, MaxTime)

SpecFreq == Init /\ [][NextFreq]_vars

\* SpecRange: discovery, then the two setters with every valid range code,
\* interleaved with reads, in every topology.
NextRange ==
    \/ BeginProbe
    \/ BeginConfigure
    \/ BeginDirect
    \/ BeginBridged
    \/ BeginSweep
    \/ BeginReturn(Topologies)
    \/ SetAccelRange(AccCodes)
    \/ SetGyroRange(GyrCodes)
    \/ ReadData({GoodTrigger}, {BurstBufA}, {MagBufB})

SpecRange == Init /\ [][NextRange]_vars

\* SpecBegin: discovery on any bus, then the two queries.
NextBegin ==
    \/ BeginProbe
    \/ BeginConfigure
    \/ BeginDirect
    \/ BeginBridged
    \/ BeginSweep
    \/ BeginReturn(Topologies)
    \/ GetMagMode
    \/ IsInitialized

SpecBegin == Init /\ [][NextBegin]_vars

\* SpecRead: discovery, then IMU_readData in every topology on a bus that
\* returns either data window or fails.
NextRead ==
    \/ BeginProbe
    \/ BeginConfigure
    \/ BeginDirect
    \/ BeginBridged
    \/ BeginSweep
    \/ BeginReturn(Topologies)
    \/ ReadData(TriggerBusSmall, BurstBuffers, MagBuffers)

SpecRead == Init /\ [][NextRead]_vars

\* SpecTrigger: discovery, then IMU_readData on a bus on which the forced-mode
\* trigger may fail at any write, succeed at the first or the last poll of
\* either round, or time out.
NextTrigger ==
    \/ BeginProbe
    \/ BeginConfigure
    \/ BeginDirect
    \/ BeginBridged
    \/ BeginSweep
    \/ BeginReturn(Topologies)
    \/ ReadData(TriggerBus, {BurstBufA}, {MagBufB})

SpecTrigger == Init /\ [][NextTrigger]_vars

\* IMU_begin runs on one thread from its first statement to its return: a
\* step of discovery that can be taken is taken.
Discovery ==
    \/ BeginProbe
    \/ BeginConfigure
    \/ BeginDirect
    \/ BeginBridged
    \/ BeginSweep
    \/ BeginReturn(Topologies)

\* SpecTriggerFair: SpecTrigger with discovery running to its end.
SpecTriggerFair == SpecTrigger /\ WF_vars(Discovery)

\* SpecPoll: discovery, then the polling loop for ever: the loop calls
\* IMU_readDataWithFrequency with one frequency, millis() moves on by one
\* after every CallsPerTick calls and wraps at ClockWrap.  The data reads
\* fail, so that every sample is the zero sample: when a call flushes does
\* not depend on the data.
PollFrequencies == {500, 1000, 2000}

\* the longest window holds CallsPerTick samples for each millisecond of the
\* longest interval
PollCap == CallsPerTick * Interval(MAX_MAG_FREQUENCY)

\* the loop has made its calls for this value of millis()
CallsMade ==
    /\ call.op = "IMU_readDataWithFrequency"
    /\ call.ret.at = now
    /\ call.ret.nth >= CallsPerTick

PollCall ==
    /\ ~CallsMade
    /\ \E f \in PollFrequencies :
          /\ call.op = "IMU_readDataWithFrequency" => f = call.arg
          /\ ReadDataWithFrequency({f}, {<<TRUE, TRUE>>}, {GoodTrigger}, {}, {}, PollCap)

PollTick ==
    /\ pc = "ready"
    /\ CallsMade
    /\ now' = (now + 1) % ClockWrap
    /\ UNCHANGED <<pc, i, addr, topology, factors, accumulator, out, call, bus_log, trail>>

NextPoll ==
    \/ BeginProbe
    \/ BeginConfigure
    \/ BeginDirect
    \/ BeginBridged
    \/ BeginSweep
    \/ BeginReturn(Topologies)
    \/ PollCall
    \/ PollTick

SpecPoll ==
    Init /\ [][NextPoll]_vars /\ WF_vars(Discovery) /\ WF_vars(PollCall) /\ WF_vars(PollTick)

\* SpecUnusable: discovery, then single reads and the rate limiter at 100 Hz
\* (a 10 ms interval in every topology) in any order, in every topology.
NextUnusable ==
    \/ BeginProbe
    \/ BeginConfigure
    \/ BeginDirect
    \/ BeginBridged
    \/ BeginSweep
    \/ BeginReturn(Topologies)
    \/ ReadData({GoodTrigger}, {BurstBufA}, {MagBufB})
    \/ ReadDataWithFrequency({100}, {<<TRUE, TRUE>>}, {GoodTrigger}, {BurstBufA}, {MagBufB}, MaxSamples)
    \/ Tick({TickStep}, MaxTime)

SpecUnusable == Init /\ [][NextUnusable]_vars

\* ------------------------------------------------------------- properties
\* the last call was the one named
Returned(op) == pc = "ready" /\ call.op = op

\* a search tier accepted a candidate address: mag_mode leaves NONE exactly
\* when BeginDirect, BeginBridged or BeginSweep accepts
TierAccepted == mag_mode # NONE

\* C1: IMU_begin returns what IMU_isInitialized reports afterwards, and that
\* value is true exactly when one of the three search tiers accepted a
\* candidate address, whether or not the primary chip was found.
C1_UsableIffTierAccepted ==
    pc = "ready" =>
        /\ initialized <=> TierAccepted
        /\ call.op \in {"IMU_begin", "IMU_isInitialized"} => call.ret = initialized

\* C2 as stated: after IMU_begin the flag is true exactly when the primary
\* chip or the magnetometer was found.
C2_UsableIffEitherDevice ==
    pc = "ready" => (initialized <=> (bmi160_addr # 0 \/ bmm150_addr # 0))

\* C2: after IMU_begin the flag, which is also what IMU_begin returned, is
\* true exactly when discovery recorded a non-zero magnetometer address; the
\* primary chip alone leaves it false.
C2_UsableIffMagnetometerAddress ==
    pc = "ready" =>
        /\ initialized <=> bmm150_addr # 0
        /\ call.op = "IMU_begin" => call.ret = initialized

C2_PrimaryAloneNotUsable ==
    /\ Returned("IMU_begin")
    /\ bmi160_addr # 0
    /\ bmm150_addr = 0
    /\ ~initialized
    /\ call.ret = FALSE

\* C3: when discovery found neither the primary chip nor a magnetometer,
\* every IMU_readData call leaves all ten outputs zero, whatever they held
\* before and however many calls came before it.
C3_NoDevicesReadsZero ==
    (Returned("IMU_readData") /\ bmi160_addr = 0 /\ mag_mode = NONE) => out = ZeroSample

C3_ReadWithNoDevices ==
    /\ Returned("IMU_readData")
    /\ bmi160_addr = 0
    /\ mag_mode = NONE
    /\ now > 0
    /\ out = ZeroSample

\* C4: once IMU_begin has returned, no step of any public operation, on any
\* bus, changes bmi160_addr, bmm150_addr, mag_mode or initialized.
C4_TopologyFrozen == [][pc = "ready" => topology' = topology]_vars

C4_FailedWriteAfterBegin ==
    /\ Returned("IMU_setAccelRange")
    /\ bmi160_addr # 0
    /\ initialized
    /\ Len(bus_log) = 1
    /\ ~bus_log[1].ok

\* the mean of the samples of window w, each axis truncated toward zero
RECURSIVE Total(_)
Total(xs) == IF xs = <<>> THEN 0 ELSE Head(xs) + Total(Tail(xs))

TruncMean3(w, field) ==
    [k \in 1..3 |-> TruncDiv(Total([j \in 1..Len(w) |-> w[j][field][k]]), Len(w))]

WindowMean(w) ==
    Sample(TruncMean3(w, "acc"), TruncMean3(w, "gyr"), TruncMean3(w, "mag"),
           TruncDiv(Total([j \in 1..Len(w) |-> w[j].rhall]), Len(w)))

SumsZero ==
    /\ acc_sum = <<0, 0, 0>>
    /\ gyr_sum = <<0, 0, 0>>
    /\ mag_sum = <<0, 0, 0>>
    /\ rhall_sum = 0
    /\ samples = 0

\* C5: the call that flushes N >= 1 accumulated samples writes to each of the
\* ten outputs the mean of that axis over those N samples, truncated toward
\* zero, and leaves the sums and the sample count zero.
C5_FlushWritesTruncatedMean ==
    [][(RateCall /\ call'.ret.elapsed /\ samples > 0) =>
          (out' = WindowMean(window) /\ SumsZero')]_vars

\* C6: an IMU_readDataWithFrequency call made before the interval has elapsed
\* writes none of the caller's outputs; only a call that finds the interval
\* elapsed does.
C6_InWindowCallWritesNothing ==
    [][RateCall => (out' # out => call'.ret.elapsed) /\ (~call'.ret.elapsed => out' = out)]_vars

C6_InWindowCallMade ==
    /\ Returned("IMU_readDataWithFrequency")
    /\ ~call.ret.elapsed
    /\ samples = MaxWindow
    /\ bmi160_addr # 0
    /\ out = StaleSample

\* C7 as stated: every IMU_readDataWithFrequency call, the flushing one
\* included, performs exactly one IMU_readData and counts it.
C7_EveryCallReadsOnce ==
    [][RateCall => (call'.ret.reads = 1 /\ Len(window') = Len(window) + 1)]_vars

\* C7: the elapsed-time check comes first; a call inside the window performs
\* exactly one IMU_readData and the sample count grows by one, a call that
\* finds the interval elapsed performs no IMU_readData and folds nothing.
C7_ReadOnlyInsideWindow ==
    [][RateCall =>
          IF call'.ret.elapsed
          THEN call'.ret.reads = 0 /\ samples' = 0 /\ window' = <<>>
          ELSE /\ call'.ret.reads = 1
               /\ samples' = samples + 1
               /\ Len(window') = Len(window) + 1]_vars

C7_FlushWithoutRead ==
    /\ Returned("IMU_readDataWithFrequency")
    /\ call.ret.elapsed
    /\ call.ret.reads = 0
    /\ call.ret.divisions > 0
    /\ bus_log = <<>>

\* C8: a call that finds the interval elapsed while no sample is accumulated
\* divides nothing, leaves the caller's outputs as they were and leaves the
\* sums and the sample count zero.
C8_EmptyFlushWritesNothing ==
    [][(RateCall /\ call'.ret.elapsed /\ samples = 0) =>
          (call'.ret.divisions = 0 /\ out' = out /\ SumsZero')]_vars

C8_EmptyFlushMade ==
    /\ Returned("IMU_readDataWithFrequency")
    /\ call.ret.elapsed
    /\ call.ret.divisions = 0
    /\ last_time > 0
    /\ SumsZero
    /\ out = StaleSample

\* the effective frequency as specified: 10 Hz for a request <= 0, at most
\* 100 Hz with a magnetometer in mode PRIMARY or SECONDARY and 1600 Hz without
SpecifiedFrequency(request, mode) ==
    LET f == IF request <= 0 THEN 10 ELSE request
        limit == IF mode \in {PRIMARY, SECONDARY} THEN 100 ELSE Min(1600, 3200)
    IN Min(f, limit)

\* C9: the frequency a call uses is the request, 10 Hz for a request <= 0,
\* capped at 100 Hz when a magnetometer is present and at 1600 Hz otherwise,
\* and the interval is 1000 / frequency milliseconds, truncated.
C9_EffectiveFrequency ==
    Returned("IMU_readDataWithFrequency") =>
        /\ call.ret.frequency = SpecifiedFrequency(call.arg, mag_mode)
        /\ call.ret.interval = 1000 \div SpecifiedFrequency(call.arg, mag_mode)

C9_CappedByMagnetometer ==
    /\ Returned("IMU_readDataWithFrequency")
    /\ call.arg = 500
    /\ mag_mode = SECONDARY
    /\ call.ret.frequency = 100
    /\ call.ret.interval = 10

\* the conversion factors of the valid range codes (gyroscope in thousandths)
AccFactor == [c \in AccCodes |-> CASE c = 3 -> 16384 [] c = 5 -> 8192 [] c = 8 -> 4096 [] c = 12 -> 2048]

GyrFactor == [c \in GyrCodes |-> CASE c = 0 -> 16384 [] c = 1 -> 32768 [] c = 2 -> 65536 [] c = 3 -> 131072 [] c = 4 -> 262144]

\* C10: after IMU_setAccelRange(code) or IMU_setGyroRange(code) with a valid
\* code, in every topology and whether or not the write succeeded, the
\* configured range is code and the factor is its table entry; the register
\* write is issued only with the primary chip present.
C10_SetterUpdatesRangeAndFactor ==
    /\ Returned("IMU_setAccelRange") =>
          config.acc_range = call.arg /\ ACC_LSB = AccFactor[call.arg]
    /\ Returned("IMU_setGyroRange") =>
          config.gyr_range = call.arg /\ GYR_LSB = GyrFactor[call.arg]
    /\ (call.op \in {"IMU_setAccelRange", "IMU_setGyroRange"} /\ bus_log # <<>>) =>
          bmi160_addr # 0

\* C11: in every reachable state the accelerometer factor is the table entry
\* of the configured accelerometer range and the gyroscope factor the table
\* entry of the configured gyroscope range.
C11_FactorsMatchRanges ==
    /\ ACC_LSB = AccFactor[config.acc_range]
    /\ GYR_LSB = GyrFactor[config.gyr_range]

C11_BothRangesChangedThenRead ==
    /\ Returned("IMU_readData")
    /\ config.acc_range = 12
    /\ config.gyr_range = 4
    /\ ACC_LSB = 2048
    /\ GYR_LSB = 262144

\* the log entry e is a probe of register reg at address a
IsProbe(e, a, reg) == e.t = "probe" /\ e.addr = a /\ e.reg = reg

\* C12: the primary-chip search probes 0x68 then 0x69; a candidate is taken
\* exactly when its probe succeeded and the identity byte is 0xD1, the first
\* such candidate ends the search, a candidate with another identity byte is
\* never taken, and the address stays 0 when neither matches.
C12_FirstMatchingCandidate ==
    [][pc = "probe" =>
          /\ Len(bus_log') = 1
          /\ IsProbe(bus_log'[1], IF i = 0 THEN 104 ELSE 105, 0)
          /\ IF bus_log'[1].ok /\ bus_log'[1].data = <<209>>
             THEN bmi160_addr' = bus_log'[1].addr /\ pc' # "probe"
             ELSE /\ bmi160_addr' = 0
                  /\ IF i = 0 THEN pc' = "probe" /\ i' = 1 ELSE pc' # "probe"]_vars

C12_SecondCandidateTaken ==
    /\ pc = "config"
    /\ bmi160_addr = 105
    /\ IsProbe(bus_log[1], 105, 0)
    /\ bus_log[1].data = <<209>>

\* the tries of trail made by the tier named
TriesOf(tier) == {k \in 1..Len(trail) : trail[k].tier = tier}

\* the direct and the bridged tier tried 0x10..0x13 in turn and rejected all
EarlierTiersRejected ==
    /\ Len(trail) >= 8
    /\ \A j \in 1..4 :
          /\ trail[j] = Attempt("direct", 15 + j, FALSE)
          /\ trail[4 + j] = Attempt("bridged", 15 + j, FALSE)

\* C13: a sweep probe (an identity read of register 0x40) is issued only with
\* the primary chip found and all four direct and all four bridged candidates
\* rejected, never after the direct or the bridged tier accepted; a sweep
\* match sets mode PRIMARY with the matching address and ends the sweep.
C13_SweepIsTheLastResort ==
    /\ (pc = "sweep" \/ TriesOf("sweep") # {}) => (bmi160_addr # 0 /\ EarlierTiersRejected)
    /\ (\E k \in TriesOf("direct") \cup TriesOf("bridged") : trail[k].ok) => TriesOf("sweep") = {}
    /\ (bus_log # <<>> /\ bus_log[1].t = "probe" /\ bus_log[1].reg = 64) =>
          (Len(trail) \in TriesOf("sweep") /\ trail[Len(trail)].addr = bus_log[1].addr)
    /\ \A k \in TriesOf("sweep") :
          /\ trail[k].addr = k - 9
          /\ trail[k].ok =>
                /\ k = Len(trail)
                /\ pc \in {"finish", "ready"}
                /\ mag_mode = PRIMARY
                /\ bmm150_addr = trail[k].addr

C13_SweepMatchedLastAddress ==
    /\ pc = "ready"
    /\ trail[Len(trail)] = Attempt("sweep", 127, TRUE)
    /\ mag_mode = PRIMARY
    /\ bmm150_addr = 127

\* the little-endian signed 16-bit word at bytes k, k + 1 of buf
S16LE(buf, k) ==
    LET u == buf[k + 1] + 256 * buf[k + 2] IN IF u >= 32768 THEN u - 65536 ELSE u

\* the successful reads of n bytes from register reg in the log of the last step
ReadsOf(reg, n) ==
    {k \in 1..Len(bus_log) :
        bus_log[k].t = "read" /\ bus_log[k].reg = reg /\ bus_log[k].val = n /\ bus_log[k].ok}

\* C14: after a successful 20-byte burst read IMU_readData holds the gyroscope
\* words of bytes 8..13 and the accelerometer words of bytes 14..19, each a
\* little-endian signed 16-bit word, and in mode SECONDARY only the
\* magnetometer words of bytes 0..5 and the auxiliary word of bytes 6..7.
C14_BurstDecodedLittleEndian ==
    Returned("IMU_readData") =>
        \A k \in ReadsOf(4, 20) :
            LET b == bus_log[k].data IN
            /\ out.gyr = <<S16LE(b, 8), S16LE(b, 10), S16LE(b, 12)>>
            /\ out.acc = <<S16LE(b, 14), S16LE(b, 16), S16LE(b, 18)>>
            /\ mag_mode = SECONDARY =>
                  (out.mag = <<S16LE(b, 0), S16LE(b, 2), S16LE(b, 4)>> /\ out.rhall = S16LE(b, 6))
            /\ mag_mode = NONE => (out.mag = <<0, 0, 0>> /\ out.rhall = 0)

C14_NegativeWordsDecoded ==
    /\ Returned("IMU_readData")
    /\ mag_mode = SECONDARY
    /\ ReadsOf(4, 20) # {}
    /\ out.gyr = <<-1, -2, 3>>
    /\ out.acc = <<-3, -32768, 32767>>
    /\ out.mag = <<16, 32, 8>>
    /\ out.rhall = 1

\* C15: in mode PRIMARY, after a successful 8-byte read of the magnetometer
\* data, X and Y are the signed words of bytes 0..1 and 2..3 shifted right
\* arithmetically by 3, Z the signed word of bytes 4..5 shifted by 1, and the
\* auxiliary value the signed word of bytes 6..7 unshifted.
C15_DirectDecodeShifts ==
    (Returned("IMU_readData") /\ mag_mode = PRIMARY) =>
        \A k \in ReadsOf(66, 8) :
            LET b == bus_log[k].data IN
            /\ out.mag = <<S16LE(b, 0) \div 8, S16LE(b, 2) \div 8, S16LE(b, 4) \div 2>>
            /\ out.rhall = S16LE(b, 6)

C15_DocumentedExampleDecoded ==
    /\ Returned("IMU_readData")
    /\ mag_mode = PRIMARY
    /\ \E k \in ReadsOf(66, 8) : bus_log[k].data = <<16, 0, 32, 0, 8, 0, 1, 0>>
    /\ out.mag = <<2, 4, 4>>
    /\ out.rhall = 1

MagZero == out.mag = <<0, 0, 0>> /\ out.rhall = 0

\* C16: after IMU_readData, on any bus, the accelerometer and gyroscope
\* outputs are all decoded from the one successful burst read of the call or
\* all zero, the magnetometer and auxiliary outputs are all decoded from the
\* one successful read of the call that carries them or all zero, and nothing
\* the caller's buffers held before the call is left.
C16_AllDecodedOrAllZero ==
    Returned("IMU_readData") =>
        /\ Cardinality(ReadsOf(4, 20)) <= 1
        /\ Cardinality(ReadsOf(66, 8)) <= 1
        /\ IF ReadsOf(4, 20) = {}
           THEN out.acc = <<0, 0, 0>> /\ out.gyr = <<0, 0, 0>>
           ELSE \E k \in ReadsOf(4, 20) :
                   /\ out.acc = [j \in 1..3 |-> S16LE(bus_log[k].data, 12 + 2 * j)]
                   /\ out.gyr = [j \in 1..3 |-> S16LE(bus_log[k].data, 6 + 2 * j)]
        /\ CASE mag_mode = SECONDARY ->
                  IF ReadsOf(4, 20) = {} THEN MagZero
                  ELSE \E k \in ReadsOf(4, 20) :
                          /\ out.mag = [j \in 1..3 |-> S16LE(bus_log[k].data, 2 * j - 2)]
                          /\ out.rhall = S16LE(bus_log[k].data, 6)
             [] mag_mode = PRIMARY ->
                  IF ReadsOf(66, 8) = {} THEN MagZero
                  ELSE \E k \in ReadsOf(66, 8) :
                          /\ out.mag = <<S16LE(bus_log[k].data, 0) \div 8,
                                         S16LE(bus_log[k].data, 2) \div 8,
                                         S16LE(bus_log[k].data, 4) \div 2>>
                          /\ out.rhall = S16LE(bus_log[k].data, 6)
             [] OTHER -> MagZero

C16_BurstReadButMagnetometerFailed ==
    /\ Returned("IMU_readData")
    /\ mag_mode = PRIMARY
    /\ ReadsOf(4, 20) # {}
    /\ ReadsOf(66, 8) = {}
    /\ bus_log[Len(bus_log)].t = "read"
    /\ out.acc = <<-3, -32768, 32767>>
    /\ MagZero

\* the registers and values IMU_begin is to write to the primary chip, in order
ExpectedConfiguration ==
    << <<64, config.acc_odr>>, <<65, config.acc_range>>, <<66, config.gyr_odr>>,
       <<67, config.gyr_range>>, <<126, 182>>, <<126, 17>>, <<126, 21>> >>

\* C17: when IMU_begin has found the primary chip it issues to it, in order,
\* the seven configuration writes, whichever of them fail and in either build
\* configuration, and then recomputes the conversion factors.
C17_SevenWritesAlwaysIssued ==
    [][pc = "config" =>
          /\ Len(bus_log') = 7
          /\ \A k \in 1..7 :
                /\ bus_log'[k].t = "write"
                /\ bus_log'[k].addr = bmi160_addr
                /\ <<bus_log'[k].reg, bus_log'[k].val>> = ExpectedConfiguration[k]
          /\ ACC_LSB' = AccFactor[config.acc_range]
          /\ GYR_LSB' = GyrFactor[config.gyr_range]]_vars

\* C18: the bridge sequencer runs only with the primary chip found and after
\* the four direct candidates 0x10..0x13 were rejected; it is tried on
\* 0x10..0x13 in ascending order, the first success records that address
\* with mode SECONDARY, and no bridged candidate is tried after a success.
C18_BridgedAfterDirectInOrder ==
    /\ (pc = "bridged" \/ TriesOf("bridged") # {}) =>
          /\ bmi160_addr # 0
          /\ Len(trail) >= 4
          /\ \A j \in 1..4 : trail[j] = Attempt("direct", 15 + j, FALSE)
    /\ pc = "bridged" => addr = 16 + Cardinality(TriesOf("bridged"))
    /\ \A k \in TriesOf("bridged") :
          /\ k \in 5..8
          /\ trail[k].addr = 11 + k
          /\ trail[k].ok =>
                /\ k = Len(trail)
                /\ pc \in {"finish", "ready"}
                /\ mag_mode = SECONDARY
                /\ bmm150_addr = trail[k].addr

C18_SecondBridgedCandidateAccepted ==
    /\ pc = "ready"
    /\ Len(trail) = 6
    /\ trail[5] = Attempt("bridged", 16, FALSE)
    /\ trail[6] = Attempt("bridged", 17, TRUE)
    /\ mag_mode = SECONDARY
    /\ bmm150_addr = 17

\* the log is that of a direct attempt on candidate a that is to be accepted:
\* the power-on write succeeded, the identity read succeeded and gave 0x32
DirectAccepts(log, a) ==
    /\ Len(log) = 2
    /\ log[1].ok
    /\ log[2].t = "read" /\ log[2].addr = a /\ log[2].reg = 64 /\ log[2].ok
    /\ log[2].data = <<50>>

\* C19: the direct tier runs with or without the primary chip and tries
\* 0x10..0x13 in ascending order; a candidate is accepted exactly when its
\* power-on write and its identity read succeeded and the byte read is 0x32;
\* the first accepted candidate sets mode PRIMARY with its address and ends
\* the tier, and every transaction of a try goes to the candidate tried.
C19_DirectAcceptsExactIdentity ==
    [][pc = "direct" =>
          /\ addr = 16 + Len(trail)
          /\ addr \in 16..19
          /\ \A k \in 1..Len(bus_log') : bus_log'[k].addr = addr
          /\ bus_log'[1].t = "write" /\ bus_log'[1].reg = 75 /\ bus_log'[1].val = 1
          /\ IF DirectAccepts(bus_log', addr)
             THEN bmm150_addr' = addr /\ mag_mode' = PRIMARY /\ pc' = "finish"
             ELSE /\ bmm150_addr' = 0
                  /\ mag_mode' = NONE
                  /\ IF addr < 19
                     THEN pc' = "direct" /\ addr' = addr + 1
                     ELSE pc' = IF bmi160_addr # 0 THEN "bridged" ELSE "finish"]_vars

C19_AcceptedWithoutPrimaryChip ==
    /\ pc = "ready"
    /\ bmi160_addr = 0
    /\ trail = <<Attempt("direct", 16, FALSE), Attempt("direct", 17, TRUE)>>
    /\ mag_mode = PRIMARY
    /\ bmm150_addr = 17

\* C20: when a register write of the bridge sequencer fails, whichever it is,
\* the sequencer makes no further transaction for that candidate, the
\* topology is left as it was, and discovery goes on to the next candidate
\* or, after 0x13, to the sweep.
C20_FailedWriteEndsSequencer ==
    [][pc = "bridged" =>
          \A k \in 1..Len(bus_log') :
              (bus_log'[k].t = "write" /\ ~bus_log'[k].ok) =>
                  /\ k = Len(bus_log')
                  /\ topology' = topology
                  /\ IF addr < 19
                     THEN pc' = "bridged" /\ addr' = addr + 1
                     ELSE pc' = "sweep" /\ addr' = 0]_vars

C20_WriteFailedAfterPowerCheck ==
    /\ pc = "bridged"
    /\ addr = 17
    /\ Len(bus_log) = 12
    /\ bus_log[12].t = "write"
    /\ ~bus_log[12].ok
    /\ mag_mode = NONE
    /\ bmm150_addr = 0

\* the transactions of log on register reg of kind t
EntriesOf(log, t, reg) == {k \in 1..Len(log) : log[k].t = t /\ log[k].reg = reg}

\* entry k of log is a status read that succeeded and shows bit 5 set
ReadyAt(log, k) ==
    /\ k \in EntriesOf(log, "read", 27)
    /\ log[k].ok
    /\ (log[k].data[1] \div 32) % 2 = 1

\* log is that of a run of the bridge sequencer that is to succeed: fourteen
\* writes, all successful; the relayed power status read as 0x01; at most 200
\* status polls; and last a successful 8-byte read of the shadow buffer with a
\* non-zero byte, made either right after a poll that found the bit set or
\* after the 200th poll found nothing to accept
SequencerAccepts(log) ==
    LET n == Len(log)
        writes == {k \in 1..n : log[k].t = "write"}
        polls == EntriesOf(log, "read", 27)
    IN /\ Cardinality(writes) = 14
       /\ \A k \in writes : log[k].ok
       /\ \E k \in EntriesOf(log, "read", 79) : log[k].ok /\ log[k].data = <<1>>
       /\ Cardinality(polls) <= 200
       /\ log[n].t = "read" /\ log[n].reg = 4 /\ log[n].val = 8 /\ log[n].ok
       /\ \E j \in 1..8 : log[n].data[j] # 0
       /\ ReadyAt(log, n - 1) \/ Cardinality(polls) = 200

\* C21: the bridge sequencer accepts a candidate exactly when all its writes
\* succeeded, the relayed power status read back is 0x01, and a shadow-buffer
\* read with a non-zero byte succeeded either after one of at most 200 polls
\* found the data-ready bit or as the one read made after the 200 polls; an
\* all-zero buffer is never accepted.
C21_SequencerAcceptsExactly ==
    [][pc = "bridged" =>
          /\ trail'[Len(trail')].ok <=> SequencerAccepts(bus_log')
          /\ trail'[Len(trail')].ok <=> mag_mode' = SECONDARY]_vars

C21_AcceptedAfterPollsRanOut ==
    /\ pc = "finish"
    /\ mag_mode = SECONDARY
    /\ trail[Len(trail)] = Attempt("bridged", 18, TRUE)
    /\ Cardinality(EntriesOf(bus_log, "read", 27)) = 200
    /\ bus_log[Len(bus_log) - 1].reg = 4
    /\ bus_log[Len(bus_log) - 1].data = <<0, 0, 0, 0, 0, 0, 0, 0>>
    /\ bus_log[Len(bus_log)].data = <<16, 0, 32, 0, 8, 0, 1, 0>>

\* the steps the bridge protocol prescribes for physical address p, each as
\* <<kind, register, value or length>>: target address, write mode, power-on
\* (select, value, commit), power read-back (select, read mode, read),
\* operating mode (select, value, commit), output rate, burst window and
\* length, magnetometer-normal command
BridgeProtocol(p) ==
    << <<"write", 75, p \div 2>>, <<"write", 76, 128>>,
       <<"write", 78, 75>>, <<"write", 79, 1>>, <<"write", 76, 128>>,
       <<"write", 78, 75>>, <<"write", 76, 0>>, <<"read", 79, 1>>,
       <<"write", 78, 76>>, <<"write", 79, 6>>, <<"write", 76, 128>>,
       <<"write", 68, 11>>, <<"write", 77, 66>>, <<"write", 76, 3>>,
       <<"write", 126, 25>> >>

\* C22: every run of the bridge sequencer for physical address p makes the
\* steps of the protocol in their order, starting with the target address
\* p >> 1, and makes a step only when every earlier one succeeded: the
\* magnetometer-normal command is not issued before the power read-back gave
\* 0x01, and polling and shadow reads come only after that command succeeded.
C22_SequencerStepsInOrder ==
    [][pc = "bridged" =>
          LET steps == Tail(bus_log') IN
          /\ bus_log'[1].t = "probe" /\ bus_log'[1].addr = bmi160_addr
          /\ \A k \in 1..Len(steps) :
                /\ steps[k].addr = bmi160_addr
                /\ IF k <= 15
                   THEN <<steps[k].t, steps[k].reg, steps[k].val>> = BridgeProtocol(addr)[k]
                   ELSE steps[k].t = "read" /\ steps[k].reg \in {27, 4}
                /\ (1 < k /\ k <= 16) => steps[k - 1].ok
                /\ k > 8 => steps[8].data = <<1>>
                /\ k > 15 => steps[15].ok]_vars

C22_ProtocolRunToPolling ==
    /\ pc = "finish"
    /\ trail[Len(trail)] = Attempt("bridged", 18, TRUE)
    /\ bus_log[2].reg = 75 /\ bus_log[2].val = 9
    /\ bus_log[9].t = "read" /\ bus_log[9].data = <<1>>
    /\ bus_log[16].reg = 126 /\ bus_log[16].val = 25 /\ bus_log[16].ok
    /\ bus_log[17].reg = 27
    /\ Len(bus_log) > 18

\* the registers and values of the trigger's passthrough writes, in order
\* (the value written to the target-address register is left open), and of
\* its recovery writes
TriggerWrites == << <<125, 1>>, <<75>>, <<76, 128>>, <<78, 76>>, <<79, 2>>, <<76, 128>> >>

RecoveryWrites == << <<78, 75>>, <<79, 1>>, <<76, 128>> >>

IsWrite(e, w) == e.t = "write" /\ e.reg = w[1] /\ (Len(w) > 1 => e.val = w[2])

\* C23: in mode SECONDARY with the primary chip present, IMU_readData first
\* runs the trigger (six writes, each only after the one before succeeded;
\* then at most 50 polls; then, only after 50 polls without the ready bit, the
\* three power-on writes once and at most 50 more polls) and then makes
\* exactly one 20-byte burst read, whatever the trigger did; what the caller
\* gets depends on the burst read alone.
C23_TriggerThenOneBurstRead ==
    (Returned("IMU_readData") /\ mag_mode = SECONDARY /\ bmi160_addr # 0) =>
        LET n == Len(bus_log)
            trig == SubSeq(bus_log, 1, n - 1)
        IN /\ n >= 2 /\ n <= 110
           /\ bus_log[n].t = "read" /\ bus_log[n].reg = 4 /\ bus_log[n].val = 20
           /\ \A k \in 1..n : bus_log[k].addr = bmi160_addr
           /\ \A k \in 1..(n - 1) :
                 /\ k <= 6 => IsWrite(trig[k], TriggerWrites[k]) /\ (k > 1 => trig[k - 1].ok)
                 /\ (6 < k /\ k <= 56) =>
                       /\ trig[k].t = "read" /\ trig[k].reg = 27
                       /\ trig[6].ok
                       /\ ~ReadyAt(trig, k - 1)
                 /\ (56 < k /\ k <= 59) =>
                       IsWrite(trig[k], RecoveryWrites[k - 56]) /\ ~ReadyAt(trig, 56)
                 /\ k > 59 =>
                       /\ trig[k].t = "read" /\ trig[k].reg = 27
                       /\ ~ReadyAt(trig, k - 1)
           /\ IF bus_log[n].ok
              THEN /\ out.acc = [j \in 1..3 |-> S16LE(bus_log[n].data, 12 + 2 * j)]
                   /\ out.gyr = [j \in 1..3 |-> S16LE(bus_log[n].data, 6 + 2 * j)]
                   /\ out.mag = [j \in 1..3 |-> S16LE(bus_log[n].data, 2 * j - 2)]
              ELSE out = ZeroSample
           /\ call.ret = 0

C23_BurstReadAfterTimedOutTrigger ==
    /\ Returned("IMU_readData")
    /\ mag_mode = SECONDARY
    /\ Len(bus_log) = 110
    /\ ~ReadyAt(bus_log, 109)
    /\ bus_log[110].reg = 4 /\ bus_log[110].ok
    /\ out.acc = <<-3, -32768, 32767>>

\* the status polls in the log of the last step
StatusPolls == EntriesOf(bus_log, "read", 27)

\* the caps of the loops: two primary candidates, four direct, four bridged
\* and 128 swept addresses; 200 polls in one run of the bridge sequencer; 50
\* polls before and 50 after the recovery of one forced-mode trigger
LoopCaps ==
    /\ i < 2
    /\ Cardinality(TriesOf("direct")) <= 4
    /\ Cardinality(TriesOf("bridged")) <= 4
    /\ Cardinality(TriesOf("sweep")) <= 128
    /\ pc # "ready" => Cardinality(StatusPolls) <= 200
    /\ Returned("IMU_readData") =>
          /\ Cardinality(StatusPolls) <= 100
          /\ \A k \in EntriesOf(bus_log, "write", 78) :
                bus_log[k].val = 75 =>
                    /\ Cardinality({j \in StatusPolls : j < k}) = 50
                    /\ Cardinality({j \in StatusPolls : j > k}) <= 50

\* C24: on every bus IMU_begin comes to its return, and no loop of discovery,
\* of the bridge sequencer or of the forced-mode trigger runs more often than
\* its cap.
C24_EveryLoopCapped == <>(pc = "ready") /\ []LoopCaps

C24_EveryCandidateTried ==
    /\ pc = "ready"
    /\ bmi160_addr = 105
    /\ Len(trail) = 136
    /\ Cardinality(TriesOf("sweep")) = 128
    /\ mag_mode = NONE

\* the step is a call of IMU_readDataWithFrequency
FrequencyCall == pc = "ready" /\ now' = now /\ call'.op = "IMU_readDataWithFrequency"

\* the writes of log to the two output-rate registers
RateWrites(log) == EntriesOf(log, "write", 64) \cup EntriesOf(log, "write", 66)

\* C25: every IMU_readDataWithFrequency call made with the primary chip
\* present, flushing or accumulating, first writes 0x0C to the accelerometer
\* and to the gyroscope output-rate register of the primary chip and writes
\* them nowhere else in the call; without the primary chip it writes neither;
\* the stored configuration, the conversion factors and the topology stay as
\* they were, and so do the sums and the count when the call neither reads
\* nor flushes a sample.
C25_RatesPushedOnEveryCall ==
    [][FrequencyCall =>
          /\ IF bmi160_addr # 0
             THEN /\ RateWrites(bus_log') = {1, 2}
                  /\ bus_log'[1].addr = bmi160_addr
                  /\ <<bus_log'[1].reg, bus_log'[1].val>> = <<64, 12>>
                  /\ bus_log'[2].addr = bmi160_addr
                  /\ <<bus_log'[2].reg, bus_log'[2].val>> = <<66, 12>>
             ELSE RateWrites(bus_log') = {}
          /\ factors' = factors
          /\ topology' = topology
          /\ (call'.ret.elapsed /\ samples = 0) =>
                <<acc_sum, gyr_sum, mag_sum, rhall_sum, samples>>'
                    = <<acc_sum, gyr_sum, mag_sum, rhall_sum, samples>>]_vars

C25_PushedOnFlushingCall ==
    /\ Returned("IMU_readDataWithFrequency")
    /\ call.ret.elapsed
    /\ call.ret.divisions > 0
    /\ Len(bus_log) = 2
    /\ bus_log[1].val = 12 /\ ~bus_log[1].ok
    /\ config.acc_odr = 40
    /\ config.gyr_odr = 40

\* C26: in the polling loop, with millis() moving on for ever and at least
\* two calls at each of its values, IMU_readDataWithFrequency writes an
\* averaged sample to the caller's buffers again and again, whatever the
\* frequency asked for and whatever the topology.
C26_AveragedSampleAgainAndAgain ==
    []<>(Returned("IMU_readDataWithFrequency") /\ call.ret.divisions > 0)

\* C27: in mode SECONDARY every write to the target-address register 0x4B of
\* the primary chip, by the bridge sequencer for the accepted candidate and
\* by the forced-mode trigger of every later read, carries the accepted
\* magnetometer address shifted right by one bit.
C27_TargetAddressAlwaysShifted ==
    mag_mode = SECONDARY =>
        \A k \in EntriesOf(bus_log, "write", 75) :
            bus_log[k].addr = bmi160_addr => bus_log[k].val = bmm150_addr \div 2

\* C28: once IMU_begin has returned, on any bus, the mode is NONE exactly
\* when the recorded magnetometer address is 0, and the mode is SECONDARY
\* only with a non-zero primary-chip address.
C28_ModeAgreesWithAddresses ==
    pc = "ready" =>
        /\ mag_mode = NONE <=> bmm150_addr = 0
        /\ mag_mode = SECONDARY => bmi160_addr # 0

\* the last call delivered a sample to the caller: an IMU_readData call, or
\* an IMU_readDataWithFrequency call that flushed
Delivered ==
    \/ Returned("IMU_readData")
    \/ Returned("IMU_readDataWithFrequency") /\ call.ret.divisions > 0

\* C29 as stated: after IMU_begin returned false, every IMU_readData call and
\* every flush of IMU_readDataWithFrequency delivers the all-zero sample.
C29_NotUsableDeliversZero ==
    (Delivered /\ ~initialized) => out = ZeroSample

\* C29: after IMU_begin returned false without having found the primary
\* chip, every IMU_readData call and every flush of IMU_readDataWithFrequency
\* delivers the all-zero sample; after it returned false with the primary
\* chip found, IMU_readData still delivers the accelerometer and gyroscope
\* words of its burst read.
C29_NeitherDeviceDeliversZero ==
    /\ (Delivered /\ ~initialized /\ bmi160_addr = 0) => out = ZeroSample
    /\ (Returned("IMU_readData") /\ ~initialized /\ bmi160_addr # 0) =>
          \A k \in ReadsOf(4, 20) :
              /\ out.acc = [j \in 1..3 |-> S16LE(bus_log[k].data, 12 + 2 * j)]
              /\ out.gyr = [j \in 1..3 |-> S16LE(bus_log[k].data, 6 + 2 * j)]

C29_FlushedWithNeitherDevice ==
    /\ Returned("IMU_readDataWithFrequency")
    /\ call.ret.divisions > 0
    /\ ~initialized
    /\ bmi160_addr = 0
    /\ mag_mode = NONE
    /\ now > 0
    /\ out = ZeroSample

\* the log holds no successful read of sensor data (the 20-byte burst of the
\* primary chip, the 8-byte window of a directly attached magnetometer)
NoDataRead(log) ==
    \A k \in 1..Len(log) :
        (log[k].t = "read" /\ log[k].val \in {8, 20}) => ~log[k].ok

\* a call inside the window counts one more sample and adds to the sums what
\* its IMU_readData gave, the all-zero sample when no data read succeeded
CountsEveryCall ==
    LET s == window'[Len(window')] IN
    /\ samples' = samples + 1
    /\ window' = Append(window, s)
    /\ acc_sum' = [k \in 1..3 |-> acc_sum[k] + s.acc[k]]
    /\ gyr_sum' = [k \in 1..3 |-> gyr_sum[k] + s.gyr[k]]
    /\ mag_sum' = [k \in 1..3 |-> mag_sum[k] + s.mag[k]]
    /\ rhall_sum' = rhall_sum + s.rhall
    /\ NoDataRead(bus_log') => s = ZeroSample

\* C30: every IMU_readDataWithFrequency call inside the window counts one
\* sample and adds its IMU_readData result to the sums, the all-zero sample
\* of a failed read included, so that a flush delivers the sum of the samples
\* read divided by the number of all calls of the window.
C30_FailedReadsCountInTheMean ==
    [][RateCall =>
          IF call'.ret.elapsed
          THEN samples > 0 =>
                  /\ Len(window) = samples
                  /\ out' = WindowMean(window)
          ELSE CountsEveryCall]_vars

====
